---- MODULE Spec2Model ----
(***************************************************************************)
(* The analysis pipeline of the RAG code generator: CodeAnalyzer           *)
(* (code_analysis/analyzer.py), the report formatter (utils/helpers.py)    *)
(* and the worker threads MainWindow starts for it (main.py).              *)
(*                                                                         *)
(* Text is a sequence of string tokens: an f-string is the concatenation   *)
(* of its literal pieces and its formatted fields, "\n".join(output) is    *)
(* the sequence of the output lines.                                       *)
(***************************************************************************)
EXTENDS Integers, Sequences, FiniteSets, TLC

(* Bounds of the model. *)
MaxLines == 3
MaxFindings == 2
MaxCalls == 2

VARIABLES
    code,         \* SpecAst: the source text handed to _analyze_ast, as lines
    astPc,        \* SpecAst: "edit" | "analysed"
    structure,    \* SpecAst: what _analyze_ast(code) returned
    results,      \* SpecReport: the analysis results handed to the consumers
    repPc,        \* SpecReport: "build" | "derived" | "formatted"
    suggestions,  \* SpecReport: what get_improvement_suggestions(results) returned
    report,       \* SpecReport: the lines of format_code_analysis_results(results)
    reporter,     \* Spec: CodeAnalyzer.pylint_reporter.messages
    pc,           \* Spec: where each worker's analyze_code call stands
    request,      \* Spec: the code each call was started with
    partial,      \* Spec: the sub-results each call has computed so far
    exc,          \* Spec: what raised in each call, "none" if nothing did
    worker,       \* Spec: MainWindow.worker, the call started last (0: none)
    progress_bar, \* Spec: MainWindow.progress_bar.isVisible()
    analysis_text,\* Spec: MainWindow.analysis_text
    dialogs,      \* Spec: the error dialogs shown so far
    job,          \* Spec: what each worker runs, "generate" | "analyze"
    outcome,      \* Spec: what the window has shown for each worker, in order
    output_text,  \* Spec: MainWindow.output_text
    crashed       \* Spec: the process was aborted

astVars == <<code, astPc, structure>>

repVars == <<results, repPc, suggestions, report>>

callVars == <<reporter, pc, request, partial, exc>>

uiVars == <<worker, progress_bar, analysis_text, dialogs,
            job, outcome, output_text, crashed>>

vars == <<code, astPc, structure, results, repPc, suggestions, report,
          reporter, pc, request, partial, exc,
          worker, progress_bar, analysis_text, dialogs,
          job, outcome, output_text, crashed>>

(***************************************************************************)
(* Text helpers.                                                           *)
(***************************************************************************)
Digit(d) ==
    CASE d = 0 -> "0" [] d = 1 -> "1" [] d = 2 -> "2" [] d = 3 -> "3"
      [] d = 4 -> "4" [] d = 5 -> "5" [] d = 6 -> "6" [] d = 7 -> "7"
      [] d = 8 -> "8" [] d = 9 -> "9"

RECURSIVE Str(_)
\* str(n) of a non-negative int: its decimal digits
Str(n) == IF n < 10 THEN <<Digit(n)>> ELSE Str(n \div 10) \o <<Digit(n % 10)>>

(***************************************************************************)
(* Source text and ast.parse.  A source text is a sequence of lines, each  *)
(* one statement header at an indentation level; line i has lineno i.      *)
(***************************************************************************)
Stmt(kind, name, module, names, args) ==
    [kind |-> kind, name |-> name, module |-> module, names |-> names, args |-> args]

\* the statements the bounded sources are written with
StmtAlphabet ==
    { Stmt("Import", "", "", <<"os", "sys">>, <<>>),      \* import os, sys
      Stmt("ImportFrom", "", "pkg", <<"a", "b">>, <<>>),  \* from pkg import a, b
      Stmt("FunctionDef", "f", "", <<>>, <<"a", "b">>),   \* def f(a, b):
      Stmt("AsyncFunctionDef", "g", "", <<>>, <<>>),      \* async def g():
      Stmt("ClassDef", "C", "", <<>>, <<>>),              \* class C:
      Stmt("If", "", "", <<>>, <<>>),                     \* if x:
      Stmt("For", "", "", <<>>, <<>>),                    \* for x in y:
      Stmt("Pass", "", "", <<>>, <<>>) }                  \* pass

\* statements that open an indented block
CompoundKinds ==
    {"FunctionDef", "AsyncFunctionDef", "ClassDef", "If", "For", "While", "Try",
     "ExceptHandler"}

IsCompound(line) == line.stmt.kind \in CompoundKinds

\* ast.parse(code) succeeds: the indentation forms blocks, each compound
\* statement has a body, nothing else is indented
SyntaxOk(src) ==
    \/ Len(src) = 0
    \/ /\ src[1].indent = 0
       /\ ~IsCompound(src[Len(src)])
       /\ \A i \in 2..Len(src) :
             IF IsCompound(src[i - 1])
             THEN src[i].indent = src[i - 1].indent + 1
             ELSE src[i].indent <= src[i - 1].indent

\* The tree of a parsed source: node 0 is the Module, node i the statement of
\* line i; the parent of a statement is the nearest line above it that is
\* indented one level less.
Parent(src, i) ==
    IF src[i].indent = 0 THEN 0
    ELSE LET above == {j \in 1..(i - 1) : src[j].indent = src[i].indent - 1}
         IN  CHOOSE j \in above : \A k \in above : k <= j

RECURSIVE ChildrenFrom(_, _, _)
ChildrenFrom(src, n, i) ==
    IF i > Len(src) THEN <<>>
    ELSE (IF Parent(src, i) = n THEN <<i>> ELSE <<>>) \o ChildrenFrom(src, n, i + 1)

\* ast.iter_child_nodes(node): the body, in source order
iter_child_nodes(src, n) == ChildrenFrom(src, n, 1)

NodeKind(src, n) == IF n = 0 THEN "Module" ELSE src[n].stmt.kind

RECURSIVE WalkQueue(_, _)
WalkQueue(src, todo) ==
    IF todo = <<>> THEN <<>>
    ELSE LET node == Head(todo)
         IN  <<node>> \o WalkQueue(src, Tail(todo) \o iter_child_nodes(src, node))

\* ast.walk(tree): todo = deque([tree]); popleft, extend with the children,
\* yield: breadth first
walk(src) == WalkQueue(src, <<0>>)

(***************************************************************************)
(* CodeAnalyzer._calculate_complexity                                      *)
(***************************************************************************)
Bump(c, key) == [c EXCEPT ![key] = @ + 1]

RECURSIVE ComplexityLoop(_, _, _)
ComplexityLoop(src, nodes, complexity) ==
    IF nodes = <<>> THEN complexity
    ELSE LET k == NodeKind(src, Head(nodes))
             c == IF k \in {"If", "Try", "ExceptHandler"} THEN Bump(complexity, "branches")
                  ELSE IF k \in {"For", "While"} THEN Bump(complexity, "loops")
                  ELSE IF k = "FunctionDef" THEN Bump(complexity, "functions")
                  ELSE IF k = "ClassDef" THEN Bump(complexity, "classes")
                  ELSE complexity
         IN  ComplexityLoop(src, Tail(nodes), c)

\* variant: only the module's own statements are counted
ComplexityTopLevelOnly(src) ==
    ComplexityLoop(src, iter_child_nodes(src, 0),
                   [branches |-> 0, loops |-> 0, functions |-> 0, classes |-> 0])

_calculate_complexity(src) ==
    ComplexityLoop(src, walk(src),
                   [branches |-> 0, loops |-> 0, functions |-> 0, classes |-> 0])

(***************************************************************************)
(* CodeAnalyzer._analyze_ast                                               *)
(***************************************************************************)
RECURSIVE MethodNames(_, _)
\* [n.name for n in node.body if isinstance(n, ast.FunctionDef)]
MethodNames(src, body) ==
    IF body = <<>> THEN <<>>
    ELSE (IF NodeKind(src, Head(body)) = "FunctionDef"
          THEN <<src[Head(body)].stmt.name>> ELSE <<>>)
         \o MethodNames(src, Tail(body))

\* one import entry: n.name, or f"{node.module}.{node.names[0].name}"
ImportEntries(stmt) ==
    IF stmt.kind = "Import" THEN [i \in 1..Len(stmt.names) |-> <<stmt.names[i]>>]
    ELSE << <<stmt.module, ".", stmt.names[1]>> >>

RECURSIVE AstLoop(_, _, _)
AstLoop(src, nodes, analysis) ==
    IF nodes = <<>> THEN analysis
    ELSE LET n == Head(nodes)
             k == NodeKind(src, n)
             a == IF k \in {"Import", "ImportFrom"}
                  THEN [analysis EXCEPT !.imports = @ \o ImportEntries(src[n].stmt)]
                  ELSE IF k = "FunctionDef"
                  THEN [analysis EXCEPT !.functions =
                          Append(@, [name |-> src[n].stmt.name,
                                     args |-> src[n].stmt.args,
                                     lineno |-> n])]
                  ELSE IF k = "ClassDef"
                  THEN [analysis EXCEPT !.classes =
                          Append(@, [name |-> src[n].stmt.name,
                                     methods |-> MethodNames(src, iter_child_nodes(src, n)),
                                     lineno |-> n])]
                  ELSE analysis
         IN  AstLoop(src, Tail(nodes), a)

SyntaxErrorText == <<"Syntax error: ", "invalid syntax">>

_analyze_ast(src) ==
    IF SyntaxOk(src)
    THEN AstLoop(src, walk(src),
                 [imports |-> <<>>, functions |-> <<>>, classes |-> <<>>,
                  complexity |-> _calculate_complexity(src)])
    ELSE [error |-> SyntaxErrorText]

(***************************************************************************)
(* CodeAnalyzer.get_improvement_suggestions                                *)
(***************************************************************************)
FunctionThreshold == 10
BranchThreshold == 5

\* dict.get(key, default)
Get(d, key, default) == IF key \in DOMAIN d THEN d[key] ELSE default

PylintText(msg) ==
    <<"Pylint ", msg.type, ": ", msg.message, " (line ">> \o Str(msg.line) \o <<")">>

BanditText(issue) ==
    <<"Security issue (", issue.severity, "): ", issue.issue, " (line ">>
    \o Str(issue.line) \o <<", confidence: ", issue.confidence, ")">>

BlackAdvice == <<"Code formatting: Consider using Black to format your code">>
ModulesAdvice == <<"Consider breaking down the code into smaller modules">>
ComplexityAdvice ==
    <<"High cyclomatic complexity detected. Consider simplifying the logic">>

RECURSIVE PylintLoop(_, _, _)
PylintLoop(msgs, kinds, out) ==
    IF msgs = <<>> THEN out
    ELSE PylintLoop(Tail(msgs), kinds,
                    IF Head(msgs).type \in kinds
                    THEN Append(out, PylintText(Head(msgs))) ELSE out)

\* variant: convention messages are reported too
PylintSuggestionsWithConvention(msgs, out) ==
    PylintLoop(msgs, {"error", "warning", "convention"}, out)

\* lines 135-138
PylintSuggestions(msgs, out) == PylintLoop(msgs, {"error", "warning"}, out)

RECURSIVE BanditLoop(_, _, _)
BanditLoop(issues, severities, out) ==
    IF issues = <<>> THEN out
    ELSE BanditLoop(Tail(issues), severities,
                    IF Head(issues).severity \in severities
                    THEN Append(out, BanditText(Head(issues))) ELSE out)

\* variant: only HIGH issues are reported
BanditSuggestionsHighOnly(issues, out) == BanditLoop(issues, {"HIGH"}, out)

\* lines 140-146
BanditSuggestions(issues, out) == BanditLoop(issues, {"HIGH", "MEDIUM"}, out)

\* lines 148-150
BlackSuggestions(black, out) ==
    IF Get(black, "needs_formatting", FALSE) THEN Append(out, BlackAdvice) ELSE out

\* variant: >= for > in both thresholds
AstSuggestionsOffByOne(ast_analysis, out) ==
    IF "error" \notin DOMAIN ast_analysis
    THEN LET complexity == ast_analysis.complexity
             s1 == IF complexity.functions >= FunctionThreshold
                   THEN Append(out, ModulesAdvice) ELSE out
         IN  IF complexity.branches >= BranchThreshold
             THEN Append(s1, ComplexityAdvice) ELSE s1
    ELSE out

\* lines 152-159
AstSuggestions(ast_analysis, out) ==
    IF "error" \notin DOMAIN ast_analysis
    THEN LET complexity == ast_analysis.complexity
             s1 == IF complexity.functions > FunctionThreshold
                   THEN Append(out, ModulesAdvice) ELSE out
         IN  IF complexity.branches > BranchThreshold
             THEN Append(s1, ComplexityAdvice) ELSE s1
    ELSE out

\* variant: the security rule is applied before the lint rule
SuggestionsSecurityFirst(analysis_results) ==
    AstSuggestions(analysis_results.ast_analysis,
      BlackSuggestions(analysis_results.black,
        PylintSuggestions(analysis_results.pylint,
          BanditSuggestions(analysis_results.bandit, <<>>))))

get_improvement_suggestions(analysis_results) ==
    AstSuggestions(analysis_results.ast_analysis,
      BlackSuggestions(analysis_results.black,
        BanditSuggestions(analysis_results.bandit,
          PylintSuggestions(analysis_results.pylint, <<>>))))

(***************************************************************************)
(* utils.helpers.format_code_analysis_results                              *)
(***************************************************************************)
PylintHeader == <<"=== Pylint Analysis ===">>
BanditHeader == <<"\n=== Security Analysis (Bandit) ===">>
BlackHeader == <<"\n=== Code Formatting (Black) ===">>
StructureHeader == <<"\n=== Code Structure Analysis ===">>

\* str.upper() of a pylint message type
Upper(t) ==
    CASE t = "error" -> "ERROR" [] t = "warning" -> "WARNING"
      [] t = "convention" -> "CONVENTION" [] t = "refactor" -> "REFACTOR"
      [] t = "info" -> "INFO" [] t = "fatal" -> "FATAL"

RECURSIVE Join(_, _)
\* sep.join(items)
Join(sep, items) ==
    IF items = <<>> THEN <<>>
    ELSE IF Len(items) = 1 THEN <<items[1]>>
    ELSE <<items[1], sep>> \o Join(sep, Tail(items))

\* bool(x) of a list or of a dict
Truthy(x) == DOMAIN x # {}

PylintLine(msg) ==
    <<"[", Upper(msg.type), "] Line ">> \o Str(msg.line) \o <<": ", msg.message>>

BanditLine(issue) ==
    <<"[", issue.severity, "] Line ">> \o Str(issue.line)
    \o <<": ", issue.issue, " (Confidence: ", issue.confidence, ")">>

\* lines 36-39
FormatPylint(res) ==
    IF Truthy(Get(res, "pylint", <<>>))
    THEN <<PylintHeader>> \o [i \in 1..Len(res.pylint) |-> PylintLine(res.pylint[i])]
    ELSE <<>>

\* lines 42-48
FormatBandit(res) ==
    IF Truthy(Get(res, "bandit", <<>>))
    THEN <<BanditHeader>> \o [i \in 1..Len(res.bandit) |-> BanditLine(res.bandit[i])]
    ELSE <<>>

\* lines 51-57
FormatBlack(res) ==
    IF Truthy(Get(res, "black", <<>>))
    THEN <<BlackHeader>>
         \o (IF Get(res.black, "needs_formatting", FALSE)
             THEN << <<"Code needs formatting. Consider using Black to format the code.">> >>
             ELSE <<>>)
         \o (IF "error" \in DOMAIN res.black
             THEN << <<"Error during formatting check: ">> \o res.black.error >>
             ELSE <<>>)
    ELSE <<>>

RECURSIVE ClassLines(_)
ClassLines(classes) ==
    IF classes = <<>> THEN <<>>
    ELSE LET cls == Head(classes)
         IN  << <<"  - ", cls.name>> >>
             \o [i \in 1..Len(cls.methods) |-> <<"    * ", cls.methods[i]>>]
             \o ClassLines(Tail(classes))

\* lines 60-85
FormatAst(res) ==
    IF Truthy(Get(res, "ast_analysis", <<>>))
    THEN LET ast_results == res.ast_analysis
         IN  IF "error" \notin DOMAIN ast_results
             THEN LET complexity == ast_results.complexity
                  IN  <<StructureHeader,
                        <<"Functions: ">> \o Str(complexity.functions),
                        <<"Classes: ">> \o Str(complexity.classes),
                        <<"Branches: ">> \o Str(complexity.branches),
                        <<"Loops: ">> \o Str(complexity.loops)>>
                      \o (IF Truthy(ast_results.imports)
                          THEN << <<"\nImports:">> >>
                               \o [i \in 1..Len(ast_results.imports) |->
                                      <<"  - ">> \o ast_results.imports[i]]
                          ELSE <<>>)
                      \o (IF Truthy(ast_results.functions)
                          THEN << <<"\nFunctions:">> >>
                               \o [i \in 1..Len(ast_results.functions) |->
                                      <<"  - ", ast_results.functions[i].name, "(">>
                                      \o Join(", ", ast_results.functions[i].args)
                                      \o <<")">>]
                          ELSE <<>>)
                      \o (IF Truthy(ast_results.classes)
                          THEN << <<"\nClasses:">> >> \o ClassLines(ast_results.classes)
                          ELSE <<>>)
             ELSE <<>>
    ELSE <<>>

format_code_analysis_results(res) ==
    FormatPylint(res) \o FormatBandit(res) \o FormatBlack(res) \o FormatAst(res)

(***************************************************************************)
(* SpecAst: the structural inspector applied to every bounded source.      *)
(***************************************************************************)
NotAnalysed == [pending |-> TRUE]

AstInit ==
    /\ code = <<>>
    /\ astPc = "edit"
    /\ structure = NotAnalysed

\* one more line of source text; its indentation is at most one level deeper
\* than the line above it
TypeLine ==
    /\ astPc = "edit"
    /\ Len(code) < MaxLines
    /\ \E s \in StmtAlphabet, d \in 0..MaxLines :
          /\ d <= (IF code = <<>> THEN 1 ELSE code[Len(code)].indent + 1)
          /\ code' = Append(code, [stmt |-> s, indent |-> d])
    /\ UNCHANGED <<astPc, structure>>
    /\ UNCHANGED <<repVars, callVars, uiVars>>

InspectStructure ==
    /\ astPc = "edit"
    /\ structure' = _analyze_ast(code)
    /\ astPc' = "analysed"
    /\ UNCHANGED code
    /\ UNCHANGED <<repVars, callVars, uiVars>>

AstNext == TypeLine \/ InspectStructure

(***************************************************************************)
(* SpecReport: the suggestion deriver and the report formatter applied to  *)
(* bounded analysis results.                                               *)
(***************************************************************************)
LintFinding(type, message, line) == [type |-> type, message |-> message, line |-> line]

\* messages of pylint's JSONReporter
LintAlphabet ==
    { LintFinding("error", "undefined-variable", 1),
      LintFinding("error", "no-member", 2),
      LintFinding("warning", "unused-import", 1),
      LintFinding("convention", "missing-docstring", 1),
      LintFinding("refactor", "too-many-branches", 2),
      LintFinding("info", "locally-disabled", 3) }

SecurityFinding(issue, severity, line) ==
    [issue |-> issue, severity |-> severity, confidence |-> "HIGH",
     line |-> line, col |-> 0]

\* issues of bandit
SecurityAlphabet ==
    { SecurityFinding("exec used", "HIGH", 1),
      SecurityFinding("pickle load", "MEDIUM", 2),
      SecurityFinding("assert used", "LOW", 3),
      SecurityFinding("shell=True", "HIGH", 12) }

\* what _run_black returns: lines 67-70 and lines 72-75
BlackVerdicts ==
    { [needs_formatting |-> FALSE, formatted_code |-> <<"canonical">>],
      [needs_formatting |-> TRUE, formatted_code |-> <<"canonical">>],
      [error |-> <<"Cannot parse">>, needs_formatting |-> TRUE] }

\* a parsed summary with nf functions and nb branches
Summary(nf, nb) ==
    [imports |-> <<>>,
     functions |-> [i \in 1..nf |-> [name |-> "f", args |-> <<>>, lineno |-> 2 * i - 1]],
     classes |-> <<>>,
     complexity |-> [branches |-> nb, loops |-> 0, functions |-> nf, classes |-> 0]]

\* class C: / def f(a, b): / import os, sys
SampleSource ==
    << [stmt |-> Stmt("ClassDef", "C", "", <<>>, <<>>), indent |-> 0],
       [stmt |-> Stmt("FunctionDef", "f", "", <<>>, <<"a", "b">>), indent |-> 1],
       [stmt |-> Stmt("Import", "", "", <<"os", "sys">>, <<>>), indent |-> 2] >>

\* what _analyze_ast returns: a parse error, or the counters around the
\* advisories' thresholds
Summaries ==
    { [error |-> SyntaxErrorText], _analyze_ast(SampleSource) }
    \cup { Summary(nf, nb) : nf \in {0, FunctionThreshold, FunctionThreshold + 1},
                             nb \in {BranchThreshold, BranchThreshold + 1} }

ReportInit ==
    /\ results = [pylint |-> <<>>, bandit |-> <<>>,
                  black |-> [needs_formatting |-> FALSE, formatted_code |-> <<"canonical">>],
                  ast_analysis |-> Summary(0, 0)]
    /\ repPc = "build"
    /\ suggestions = <<>>
    /\ report = <<>>

Building == repPc = "build"

NumFindings == Len(results.pylint) + Len(results.bandit)

AddLintFinding ==
    /\ Building
    /\ NumFindings < MaxFindings
    /\ \E f \in LintAlphabet : results' = [results EXCEPT !.pylint = Append(@, f)]
    /\ UNCHANGED <<repPc, suggestions, report>>
    /\ UNCHANGED <<astVars, callVars, uiVars>>

AddSecurityFinding ==
    /\ Building
    /\ NumFindings < MaxFindings
    /\ \E f \in SecurityAlphabet : results' = [results EXCEPT !.bandit = Append(@, f)]
    /\ UNCHANGED <<repPc, suggestions, report>>
    /\ UNCHANGED <<astVars, callVars, uiVars>>

SetBlack ==
    /\ Building
    /\ \E b \in BlackVerdicts : results' = [results EXCEPT !.black = b]
    /\ UNCHANGED <<repPc, suggestions, report>>
    /\ UNCHANGED <<astVars, callVars, uiVars>>

SetStructure ==
    /\ Building
    /\ \E a \in Summaries : results' = [results EXCEPT !.ast_analysis = a]
    /\ UNCHANGED <<repPc, suggestions, report>>
    /\ UNCHANGED <<astVars, callVars, uiVars>>

Derive ==
    /\ Building
    /\ suggestions' = get_improvement_suggestions(results)
    /\ repPc' = "derived"
    /\ UNCHANGED <<results, report>>
    /\ UNCHANGED <<astVars, callVars, uiVars>>

Format ==
    /\ Building
    /\ report' = format_code_analysis_results(results)
    /\ repPc' = "formatted"
    /\ UNCHANGED <<results, suggestions>>
    /\ UNCHANGED <<astVars, callVars, uiVars>>

ReportNext ==
    \/ AddLintFinding \/ AddSecurityFinding \/ SetBlack \/ SetStructure
    \/ Derive \/ Format

(***************************************************************************)
(* Spec: MainWindow starts a WorkerThread per Analyze click; the workers   *)
(* run CodeAnalyzer.analyze_code on the window's one CodeAnalyzer.          *)
(***************************************************************************)
Calls == 1..MaxCalls

Line(stmt, indent) == [stmt |-> stmt, indent |-> indent]

\* import os, sys / def f(a, b): / pass
CleanSource ==
    << Line(Stmt("Import", "", "", <<"os", "sys">>, <<>>), 0),
       Line(Stmt("FunctionDef", "f", "", <<>>, <<"a", "b">>), 0),
       Line(Stmt("Pass", "", "", <<>>, <<>>), 1) >>

\* if x: / from pkg import a, b
FlawedSource ==
    << Line(Stmt("If", "", "", <<>>, <<>>), 0),
       Line(Stmt("ImportFrom", "", "pkg", <<"a", "b">>, <<>>), 1) >>

\* def f(a, b): with no body
BrokenSource == << Line(Stmt("FunctionDef", "f", "", <<>>, <<"a", "b">>), 0) >>

\* the files the user selects
Sources == {CleanSource, FlawedSource, BrokenSource}

\* the messages one pylint.lint.Run hands its reporter for a file
LinterOutput(src) ==
    IF src = CleanSource THEN <<>>
    ELSE IF src = FlawedSource
    THEN << LintFinding("warning", "unused-import", 2),
            LintFinding("convention", "missing-docstring", 1) >>
    ELSE << LintFinding("error", "syntax-error", 1) >>

\* b_mgr.get_issue_list() after one run over a file
ScannerOutput(src) ==
    IF src = FlawedSource THEN << SecurityFinding("exec used", "HIGH", 1) >>
    ELSE <<>>

\* lines 63-75: black.format_str raises on text it cannot parse
_run_black(src) ==
    IF SyntaxOk(src)
    THEN [needs_formatting |-> (src = FlawedSource), formatted_code |-> <<"canonical">>]
    ELSE [error |-> <<"Cannot parse">>, needs_formatting |-> TRUE]

\* d[key] = val on a dict
With(d, key, val) == [k \in DOMAIN d \cup {key} |-> IF k = key THEN val ELSE d[k]]

NoResults == [k \in {} |-> <<>>]

ResultFields == {"pylint", "bandit", "black", "ast_analysis"}

CallInit ==
    /\ reporter = <<>>
    /\ pc = [c \in Calls |-> "idle"]
    /\ request = [c \in Calls |-> <<>>]
    /\ partial = [c \in Calls |-> NoResults]
    /\ exc = [c \in Calls |-> "none"]

UiInit ==
    /\ worker = 0
    /\ progress_bar = FALSE
    /\ analysis_text = <<>>
    /\ dialogs = 0
    /\ job = [c \in Calls |-> "none"]
    /\ outcome = [c \in Calls |-> <<>>]
    /\ output_text = <<>>
    /\ crashed = FALSE

\* MainWindow.analyze_code with a file selected and readable (otherwise it
\* returns before starting anything): a worker is started on the file's text;
\* calls are numbered in the order they are started
AnalyzeClick(c) ==
    /\ ~crashed
    /\ pc[c] = "idle"
    /\ \A d \in Calls : d < c => pc[d] # "idle"
    /\ \E src \in Sources : request' = [request EXCEPT ![c] = src]
    /\ progress_bar' = TRUE
    /\ worker' = c
    /\ job' = [job EXCEPT ![c] = "analyze"]
    /\ pc' = [pc EXCEPT ![c] = "pylint"]
    /\ UNCHANGED <<reporter, partial, exc, analysis_text, dialogs>>
    /\ UNCHANGED <<outcome, output_text, crashed>>
    /\ UNCHANGED <<astVars, repVars>>

\* MainWindow.generate_code with requirements entered (otherwise it returns
\* before starting anything): a worker is started on rag_manager.generate_code
GenerateClick(c) ==
    /\ ~crashed
    /\ pc[c] = "idle"
    /\ \A d \in Calls : d < c => pc[d] # "idle"
    /\ progress_bar' = TRUE
    /\ worker' = c
    /\ job' = [job EXCEPT ![c] = "generate"]
    /\ pc' = [pc EXCEPT ![c] = "generating"]
    /\ UNCHANGED <<reporter, request, partial, exc, analysis_text, dialogs>>
    /\ UNCHANGED <<outcome, output_text, crashed>>
    /\ UNCHANGED <<astVars, repVars>>

\* an exception leaves analyze_code: nothing of the call's dict literal is kept
Raise(c, what) ==
    /\ pc' = [pc EXCEPT ![c] = "raised"]
    /\ exc' = [exc EXCEPT ![c] = what]

\* Each list _run_pylint has returned is the reporter's own list: what a
\* later Run appends shows in it for as long as the call holds its result.
HoldsReporterList(d) == "pylint" \in DOMAIN partial[d] /\ pc[d] # "handled"

\* CodeAnalyzer._run_pylint, file_path given (the window always gives one)
RunPylint(c) ==
    /\ ~crashed
    /\ pc[c] = "pylint"
    /\ \/ /\ Raise(c, "io")      \* open(file_path, 'w') fails
          /\ UNCHANGED <<reporter, partial>>
       \/ /\ Raise(c, "lint")    \* pylint.lint.Run fails
          /\ UNCHANGED <<reporter, partial>>
       \/ /\ reporter' = reporter \o LinterOutput(request[c])
          /\ partial' = [d \in Calls |->
                           IF d = c \/ HoldsReporterList(d)
                           THEN With(partial[d], "pylint", reporter')
                           ELSE partial[d]]
          /\ pc' = [pc EXCEPT ![c] = "bandit"]
          /\ UNCHANGED exc
    /\ UNCHANGED <<request, uiVars, astVars, repVars>>

\* CodeAnalyzer._run_bandit, file_path given
RunBandit(c) ==
    /\ ~crashed
    /\ pc[c] = "bandit"
    /\ \/ /\ Raise(c, "io")      \* open(file_path, 'w') fails
          /\ UNCHANGED partial
       \/ /\ Raise(c, "bandit")  \* the BanditManager fails
          /\ UNCHANGED partial
       \/ /\ partial' = [partial EXCEPT
                           ![c] = With(@, "bandit", ScannerOutput(request[c]))]
          /\ pc' = [pc EXCEPT ![c] = "black"]
          /\ UNCHANGED exc
    /\ UNCHANGED <<reporter, request, uiVars, astVars, repVars>>

RunBlack(c) ==
    /\ ~crashed
    /\ pc[c] = "black"
    /\ partial' = [partial EXCEPT ![c] = With(@, "black", _run_black(request[c]))]
    /\ pc' = [pc EXCEPT ![c] = "ast"]
    /\ UNCHANGED <<reporter, request, exc, uiVars, astVars, repVars>>

\* _analyze_ast, then analyze_code returns and WorkerThread.run emits finished
RunAst(c) ==
    /\ ~crashed
    /\ pc[c] = "ast"
    /\ partial' = [partial EXCEPT
                     ![c] = With(@, "ast_analysis", _analyze_ast(request[c]))]
    /\ pc' = [pc EXCEPT ![c] = "finished"]
    /\ UNCHANGED <<reporter, request, exc, uiVars, astVars, repVars>>

\* WorkerThread.run: except Exception as e: self.error.emit(str(e))
WorkerCatch(c) ==
    /\ ~crashed
    /\ pc[c] = "raised"
    /\ pc' = [pc EXCEPT ![c] = "error"]
    /\ UNCHANGED <<reporter, request, partial, exc, uiVars, astVars, repVars>>

\* MainWindow.handle_analysis_results
HandleResults(c) ==
    /\ ~crashed
    /\ pc[c] = "finished"
    /\ analysis_text' = format_code_analysis_results(partial[c])
    /\ progress_bar' = FALSE
    /\ outcome' = [outcome EXCEPT ![c] = Append(@, "report")]
    /\ pc' = [pc EXCEPT ![c] = "handled"]
    /\ UNCHANGED <<reporter, request, partial, exc, worker, dialogs, astVars, repVars>>
    /\ UNCHANGED <<job, output_text, crashed>>

\* MainWindow.handle_error
HandleError(c) ==
    /\ ~crashed
    /\ pc[c] = "error"
    /\ progress_bar' = FALSE
    /\ dialogs' = dialogs + 1
    /\ outcome' = [outcome EXCEPT ![c] = Append(@, "dialog")]
    /\ pc' = [pc EXCEPT ![c] = "handled"]
    /\ UNCHANGED <<reporter, request, partial, exc, worker, analysis_text,
                   astVars, repVars>>
    /\ UNCHANGED <<job, output_text, crashed>>

\* WorkerThread.run on rag_manager.generate_code: the chain answers with some
\* code, or raises
RunGenerate(c) ==
    /\ ~crashed
    /\ pc[c] = "generating"
    /\ \/ /\ Raise(c, "generate")
          /\ UNCHANGED partial
       \/ /\ \E src \in Sources : partial' = [partial EXCEPT ![c] = [code |-> src]]
          /\ pc' = [pc EXCEPT ![c] = "generated"]
          /\ UNCHANGED exc
    /\ UNCHANGED <<reporter, request, uiVars, astVars, repVars>>

\* MainWindow.handle_generated_code, the user answering No
HandleGeneratedNo(c) ==
    /\ ~crashed
    /\ pc[c] = "generated"
    /\ output_text' = partial[c].code
    /\ progress_bar' = FALSE
    /\ outcome' = [outcome EXCEPT ![c] = Append(@, "code")]
    /\ pc' = [pc EXCEPT ![c] = "handled"]
    /\ UNCHANGED <<reporter, request, partial, exc, worker, analysis_text, dialogs,
                   job, crashed, astVars, repVars>>

\* MainWindow.handle_generated_code, the user answering Yes: the code is saved
\* to a temporary file and analyze_code starts worker n on it
HandleGeneratedYes(c, n) ==
    /\ ~crashed
    /\ pc[c] = "generated"
    /\ pc[n] = "idle"
    /\ \A d \in Calls : d < n => pc[d] # "idle"
    /\ output_text' = partial[c].code
    /\ outcome' = [outcome EXCEPT ![c] = Append(@, "code")]
    /\ request' = [request EXCEPT ![n] = partial[c].code]
    /\ progress_bar' = TRUE
    /\ worker' = n
    /\ job' = [job EXCEPT ![n] = "analyze"]
    /\ pc' = [pc EXCEPT ![c] = "handled", ![n] = "pylint"]
    /\ UNCHANGED <<reporter, partial, exc, analysis_text, dialogs, crashed,
                   astVars, repVars>>

\* run() has returned in a WorkerThread that MainWindow.worker no longer
\* refers to: the QThread object is freed, which aborts the process if the
\* thread has not wound up yet
ThreadDestroyed(c) ==
    /\ ~crashed
    /\ pc[c] \in {"finished", "generated", "error"}
    /\ worker # c
    /\ crashed' = TRUE
    /\ UNCHANGED <<callVars, worker, progress_bar, analysis_text, dialogs,
                   job, outcome, output_text, astVars, repVars>>

Next ==
    \E c \in Calls :
        \/ AnalyzeClick(c)
        \/ GenerateClick(c)
        \/ RunPylint(c)
        \/ RunBandit(c)
        \/ RunBlack(c)
        \/ RunAst(c)
        \/ RunGenerate(c)
        \/ WorkerCatch(c)
        \/ HandleResults(c)
        \/ HandleError(c)
        \/ HandleGeneratedNo(c)
        \/ \E n \in Calls : HandleGeneratedYes(c, n)
        \/ ThreadDestroyed(c)

(***************************************************************************)
(* Specifications.                                                         *)
(***************************************************************************)
Init == AstInit /\ ReportInit /\ CallInit /\ UiInit

Spec == Init /\ [][Next]_vars

SpecAst == Init /\ [][AstNext]_vars

SpecReport == Init /\ [][ReportNext]_vars

(***************************************************************************)
(* Claims about the structural inspector (checked under SpecAst).          *)
(***************************************************************************)
Analysed == astPc = "analysed"

StructuralFields == {"imports", "functions", "classes", "complexity"}

\* C3: for a syntactically invalid source the summary carries the parse error
\* and has imports, functions and classes present and empty and every
\* complexity counter present and zero.
C3_InvalidSourceSummaryIsEmptyAndZero ==
    (Analysed /\ ~SyntaxOk(code)) =>
        /\ "error" \in DOMAIN structure
        /\ StructuralFields \subseteq DOMAIN structure
        /\ structure.imports = <<>>
        /\ structure.functions = <<>>
        /\ structure.classes = <<>>
        /\ structure.complexity =
              [branches |-> 0, loops |-> 0, functions |-> 0, classes |-> 0]

RECURSIVE ImportsInSourceOrder(_, _)
\* the import entries of lines i.. of the text, in the order of the lines
ImportsInSourceOrder(src, i) ==
    IF i > Len(src) THEN <<>>
    ELSE (IF src[i].stmt.kind \in {"Import", "ImportFrom"}
          THEN ImportEntries(src[i].stmt) ELSE <<>>)
         \o ImportsInSourceOrder(src, i + 1)

\* C6: on a parsed source, imports lists the import statements' targets in
\* the order the statements appear in the text, wherever they are nested.
C6_ImportsInSourceOrder ==
    (Analysed /\ SyntaxOk(code)) =>
        structure.imports = ImportsInSourceOrder(code, 1)

FunctionLines(src) == {i \in 1..Len(src) : src[i].stmt.kind = "FunctionDef"}

\* C7: on a syntactically valid source there is no parse error, and
\* complexity.functions is the number of entries of functions, both counting
\* every function definition (ast.FunctionDef) of the text, top-level or
\* nested.
C7_FunctionCountMatchesFunctions ==
    (Analysed /\ SyntaxOk(code)) =>
        /\ "error" \notin DOMAIN structure
        /\ structure.complexity.functions = Len(structure.functions)
        /\ Len(structure.functions) = Cardinality(FunctionLines(code))

\* a valid source with a function nested in another definition has been analysed
C7_Witness ==
    /\ Analysed
    /\ SyntaxOk(code)
    /\ \E i \in FunctionLines(code) : code[i].indent > 0
    /\ Cardinality(FunctionLines(code)) >= 2

(***************************************************************************)
(* Claims about the suggestion deriver and the report formatter (checked   *)
(* under SpecReport).                                                      *)
(***************************************************************************)
Derived == repPc = "derived"

Formatted == repPc = "formatted"

IsPylintSuggestion(s) == s[1] = "Pylint "

IsSecuritySuggestion(s) == s[1] = "Security issue ("

IsStructuralAdvice(s) == s \in {ModulesAdvice, ComplexityAdvice}

Count(seq, x) == Cardinality({i \in 1..Len(seq) : seq[i] = x})

\* security > lint error > lint warning > formatting > structural advice
PriorityClass(s) ==
    IF IsSecuritySuggestion(s) THEN 1
    ELSE IF IsPylintSuggestion(s) /\ s[2] = "error" THEN 2
    ELSE IF IsPylintSuggestion(s) THEN 3
    ELSE IF s = BlackAdvice THEN 4
    ELSE 5

\* lint > security > formatting > structural advice
RuleGroup(s) ==
    IF IsPylintSuggestion(s) THEN 1
    ELSE IF IsSecuritySuggestion(s) THEN 2
    ELSE IF s = BlackAdvice THEN 3
    ELSE 4

\* C4 as claimed: no suggestion of a lower priority class (security > lint
\* error > lint warning > formatting > structural advice) comes before one of
\* a higher priority class.
C4_OrderedByPriorityClass ==
    Derived =>
        \A i, j \in 1..Len(suggestions) :
            i < j => PriorityClass(suggestions[i]) <= PriorityClass(suggestions[j])

\* C4 as amended: the suggestions are ordered by rule group, lint (errors and
\* warnings together) before security before formatting before structural
\* advice: no suggestion of a later group comes before one of an earlier group.
C4_OrderedByRuleGroup ==
    Derived =>
        \A i, j \in 1..Len(suggestions) :
            i < j => RuleGroup(suggestions[i]) <= RuleGroup(suggestions[j])

\* suggestions of all four groups have been derived from one result
C4_Witness ==
    /\ Derived
    /\ \E i \in 1..Len(suggestions) : IsPylintSuggestion(suggestions[i])
    /\ \E i \in 1..Len(suggestions) : IsSecuritySuggestion(suggestions[i])
    /\ \E i \in 1..Len(suggestions) : suggestions[i] = BlackAdvice
    /\ \E i \in 1..Len(suggestions) : IsStructuralAdvice(suggestions[i])

IsReportedLint(msg) == msg.type \in {"error", "warning"}

IsSilentLint(msg) == msg.type \in {"convention", "refactor", "info"}

\* C8: the Pylint suggestions are exactly one "Pylint <kind>: <message>
\* (line <line>)" per error or warning finding, in the findings' order, and
\* none is for a convention, refactor or info finding.
C8_OneSuggestionPerErrorOrWarning ==
    Derived =>
        LET reported == SelectSeq(results.pylint, IsReportedLint)
            emitted == SelectSeq(suggestions, IsPylintSuggestion)
        IN  /\ Len(emitted) = Len(reported)
            /\ \A i \in 1..Len(reported) :
                  emitted[i] = <<"Pylint ", reported[i].type, ": ", reported[i].message,
                                 " (line ">> \o Str(reported[i].line) \o <<")">>
            /\ \A i \in 1..Len(emitted) :
                  emitted[i][2] \notin {"convention", "refactor", "info"}

\* a silent finding followed by a reported one has been derived from
C8_Witness ==
    /\ Derived
    /\ Len(results.pylint) = 2
    /\ IsSilentLint(results.pylint[1])
    /\ IsReportedLint(results.pylint[2])
    /\ Len(SelectSeq(suggestions, IsPylintSuggestion)) = 1

IsHighOrMedium(issue) == issue.severity \in {"HIGH", "MEDIUM"}

\* C9: there are as many security suggestions as HIGH or MEDIUM security
\* findings, one for each of them in their order and none for a LOW finding.
C9_OneSuggestionPerHighOrMedium ==
    Derived =>
        LET serious == SelectSeq(results.bandit, IsHighOrMedium)
            emitted == SelectSeq(suggestions, IsSecuritySuggestion)
        IN  /\ Len(emitted) = Len(serious)
            /\ \A i \in 1..Len(serious) :
                  /\ emitted[i][2] = serious[i].severity
                  /\ emitted[i][4] = serious[i].issue

\* one HIGH and one LOW finding gave exactly one security suggestion
C9_Witness ==
    /\ Derived
    /\ \E i \in 1..Len(results.bandit) : results.bandit[i].severity = "HIGH"
    /\ \E i \in 1..Len(results.bandit) : results.bandit[i].severity = "LOW"
    /\ Len(SelectSeq(suggestions, IsSecuritySuggestion)) = 1

Parsed(ast_analysis) == "error" \notin DOMAIN ast_analysis

\* C10: the "smaller modules" advisory appears once if there is no parse
\* error and more than 10 functions and not at all otherwise; the "high
\* complexity" advisory appears once if there is no parse error and more than
\* 5 branches and not at all otherwise.
C10_StructuralAdvisories ==
    Derived =>
        LET a == results.ast_analysis
        IN  /\ Count(suggestions, ModulesAdvice) =
                  (IF Parsed(a) /\ a.complexity.functions > 10 THEN 1 ELSE 0)
            /\ Count(suggestions, ComplexityAdvice) =
                  (IF Parsed(a) /\ a.complexity.branches > 5 THEN 1 ELSE 0)

\* a result with 11 functions and 5 branches gave the "smaller modules"
\* advisory alone
C10_Witness ==
    /\ Derived
    /\ Parsed(results.ast_analysis)
    /\ results.ast_analysis.complexity.functions = 11
    /\ results.ast_analysis.complexity.branches = 5
    /\ Count(suggestions, ModulesAdvice) = 1
    /\ Count(suggestions, ComplexityAdvice) = 0

Position(seq, x) == CHOOSE i \in 1..Len(seq) : seq[i] = x

Has(seq, x) == \E i \in 1..Len(seq) : seq[i] = x

\* C5: the report has its lint, security, formatting and structure sections
\* in that order, and a section is left out only when its input is empty or
\* absent: a result with a parse error still has its structure section.
C5_SectionOmittedOnlyWhenInputEmpty ==
    Formatted =>
        LET headers == <<PylintHeader, BanditHeader, BlackHeader, StructureHeader>>
            inputs == <<results.pylint, results.bandit, results.black,
                        results.ast_analysis>>
        IN  /\ \A k \in 1..4 : Has(report, headers[k]) <=> Truthy(inputs[k])
            /\ \A k, l \in 1..4 :
                  (k < l /\ Has(report, headers[k]) /\ Has(report, headers[l]))
                      => Position(report, headers[k]) < Position(report, headers[l])

(***************************************************************************)
(* Claims about analyze_code on the shared analyzer (checked under Spec).  *)
(***************************************************************************)
AdapterFailures == {"lint", "bandit"}

\* C1: a failure of the lint or security adapter does not leave
\* analyze_code: the call goes on to the other sub-analyses, and what it
\* returns has all four fields.
C1_AdapterFailureStaysInsideAnalyze ==
    \A c \in Calls :
        /\ exc[c] \in AdapterFailures => pc[c] \notin {"raised", "error"}
        /\ pc[c] = "finished" => DOMAIN partial[c] = ResultFields

\* C2: the lint findings a call has got are exactly those the linter
\* produced for the call's own source text, whatever other calls ran on the
\* analyzer before it or run beside it.
C2_LintFindingsAreTheCallsOwn ==
    \A c \in Calls :
        ("pylint" \in DOMAIN partial[c] /\ pc[c] # "handled")
            => partial[c].pylint = LinterOutput(request[c])

(***************************************************************************)
(* Claims about the window's workers (checked under Spec).                 *)
(***************************************************************************)
\* the worker has been started and has not yet emitted finished or error
StillRunning(c) ==
    pc[c] \in {"pylint", "bandit", "black", "ast", "generating", "raised"}

\* nothing more will be shown for the worker
Ended(c) == pc[c] = "handled" \/ (crashed /\ pc[c] # "idle")

\* C11: an analysis the window started and that has ended has shown exactly
\* one outcome: one error dialog if analyze_code failed at the boundary (the
\* file could not be written), otherwise one rendered report.
C11_AnalysisEndsInItsOneOutcome ==
    \A c \in Calls :
        (job[c] = "analyze" /\ Ended(c)) =>
            outcome[c] = (IF exc[c] = "io" THEN <<"dialog">> ELSE <<"report">>)

\* C12: while a started worker has not yet reported its result or error the
\* progress bar is visible, and no started worker's result is lost.
C12_ProgressBarWhileWorkersOutstanding ==
    /\ (~crashed /\ \E c \in Calls : StillRunning(c)) => progress_bar
    /\ \A c \in Calls : ~(crashed /\ pc[c] \notin {"idle", "handled"})

====
